---------------------------- MODULE Spec2Model ----------------------------
(***************************************************************************)
(* RedactedHook: the webhook handler HookData, its per-evaluation fetch    *)
(* cache, the tracker API client fetchAPI and the two process-wide rate    *)
(* limiters, modelled from internal/config/config_loader.go (the package   *)
(* api part, lines 227-663).                                               *)
(*                                                                         *)
(* Time is counted in seconds.  A limiter's bucket is counted in units of  *)
(* 1/Window of a token, so that rate.Every(10*time.Second) refills one     *)
(* unit per second and one permitted call costs Window units.              *)
(***************************************************************************)
EXTENDS Integers, Sequences, FiniteSets, TLC

(***************************************************************************)
(* Program constants.                                                      *)
(***************************************************************************)
\* rate.Every(10*time.Second): one token every 10 seconds.
Window == 10
\* rate.NewLimiter(..., 10) for redacted, rate.NewLimiter(..., 5) for ops.
BurstRedacted == 10
BurstOrpheus == 5
\* http.StatusIMUsed, the base of the custom status codes.
StatusIMUsed == 226
StatusOK == 200
StatusBadRequest == 400
StatusInternalServerError == 500

Indexers == {"redacted", "ops"}

Min(a, b) == IF a < b THEN a ELSE b

(***************************************************************************)
(* The state of the process.                                               *)
(***************************************************************************)
VARIABLES
    tokens,      \* [Indexers -> Nat]: each limiter's bucket, in units
    sent,        \* [Indexers -> Nat]: GETs sent to each tracker since the last refill
    config,      \* the process-wide configuration defaults
    viperOK,     \* whether viper.Unmarshal can decode the loaded configuration
    file,        \* the configuration that viper holds since it last read the file
    watcher,     \* where handleConfigChange is: "idle", "read", "unmarshalled", "minparsed"
    alive,       \* FALSE once log.Fatal has ended the process
    served,      \* requests received so far
    pc,          \* [Procs -> where the worker is in HookData]
    inbound,     \* [Procs -> the HTTP request being handled]
    requestData, \* [Procs -> RequestData]
    torrentData, \* [Procs -> *ResponseData], NoData for nil
    userData,    \* [Procs -> *ResponseData], NoData for nil
    status,      \* [Procs -> the status code written, 0 if none]
    errKind,     \* [Procs -> why the evaluation ended early, "none" if it did not]
    errText,     \* [Procs -> the upstream error string in the error body written]
    calls,       \* [Procs -> the GETs this evaluation has sent, in order]
    upstream,    \* the trackers' replies while they are held fixed (SpecRerun)
    rerun,       \* the request that SpecRerun runs again and again
    hooks,       \* whether the record-label rule is hookRecordLabel of hooks.go
    first,       \* the outcome of its first run
    observed,    \* the limiter whose calls the window bookkeeping follows
    wPhase,      \* "none", "in" (a window is running), "after" (first call after it)
    wAge,        \* seconds since the first call of the window, capped at Window
    wCalls,      \* calls to Allow made in the window so far
    wLast,       \* outcome of the latest call to Allow: "none", "ok", "denied"
    wSawDenied,  \* the window saw a denied call
    idle         \* seconds without a call since the bucket was emptied, -1 if not emptied

limVars == <<tokens, sent>>
winVars == <<observed, wPhase, wAge, wCalls, wLast, wSawDenied, idle>>
envVars == <<config, viperOK, file, watcher, upstream, rerun, hooks>>
procVars == <<pc, inbound, requestData, torrentData, userData, status, errKind,
              errText, calls>>
vars == <<limVars, winVars, envVars, procVars, alive, served, first>>

(***************************************************************************)
(* The rate limiters (golang.org/x/time/rate as configured by init).       *)
(***************************************************************************)
Burst(indexer) == IF indexer = "redacted" THEN BurstRedacted ELSE BurstOrpheus

\* A full bucket, in units.
Full(indexer) == Burst(indexer) * Window

\* A limiter that permits every call.
AllowNoCheck(t) == TRUE
\* limiter.Allow(): whether a bucket holding t units permits one call now.
Allow(t) == t >= Window

\* A limiter whose permitted calls take no token.
TakeFree(t) == t
\* The bucket after limiter.Allow() on a bucket of t units: a permitted
\* call takes one token, a denied call leaves the bucket as it is.
Take(t) == IF Allow(t) THEN t - Window ELSE t

\* The bucket of `indexer` after d more seconds: one unit per second,
\* never above the burst.
Refill(indexer, t, d) == Min(Full(indexer), t + d)

(***************************************************************************)
(* Strings are sequences of one-character strings, so that strings.Split   *)
(* and strings.TrimSpace are computed as the code computes them.           *)
(***************************************************************************)
IsSpace(c) == c \in {" ", "\t"}

RECURSIVE TrimLeft(_)
TrimLeft(s) ==
    IF s # <<>> /\ IsSpace(Head(s)) THEN TrimLeft(Tail(s)) ELSE s

RECURSIVE TrimRight(_)
TrimRight(s) ==
    IF s # <<>> /\ IsSpace(s[Len(s)]) THEN TrimRight(SubSeq(s, 1, Len(s) - 1)) ELSE s

\* strings.TrimSpace
TrimSpace(s) == TrimRight(TrimLeft(s))

\* strings.Split(s, ","): the pieces between the commas, as a sequence of
\* strings; a string without a comma (the empty one too) gives one piece.
RECURSIVE Split(_)
Split(s) ==
    IF \E k \in 1..Len(s) : s[k] = ","
        THEN LET k == CHOOSE j \in 1..Len(s) :
                          s[j] = "," /\ \A h \in 1..(j - 1) : s[h] # ","
             IN  <<SubSeq(s, 1, k - 1)>> \o Split(SubSeq(s, k + 1, Len(s)))
        ELSE <<s>>

\* for i, u := range usernames { usernames[i] = strings.TrimSpace(u) }
TrimAll(pieces) == [k \in 1..Len(pieces) |-> TrimSpace(pieces[k])]

\* for _, x := range list { if x == wanted { found = true; break } }
Contains(list, wanted) == \E k \in 1..Len(list) : list[k] = wanted

\* strings.ToLower, letter by letter.
Uppers == <<"A", "B", "C", "D", "E", "F", "G", "H", "I", "J", "K", "L", "M",
            "N", "O", "P", "Q", "R", "S", "T", "U", "V", "W", "X", "Y", "Z">>
Lowers == <<"a", "b", "c", "d", "e", "f", "g", "h", "i", "j", "k", "l", "m",
            "n", "o", "p", "q", "r", "s", "t", "u", "v", "w", "x", "y", "z">>
ToLowerChar(c) ==
    IF \E k \in 1..Len(Uppers) : Uppers[k] = c
        THEN Lowers[CHOOSE k \in 1..Len(Uppers) : Uppers[k] = c]
        ELSE c
ToLower(s) == [k \in 1..Len(s) |-> ToLowerChar(s[k])]

\* html.UnescapeString, for the entities "&amp;" and "&lt;": each is
\* replaced by the character it names, everything else is kept.
EntityAmp == <<"&", "a", "m", "p", ";">>
EntityLt == <<"&", "l", "t", ";">>
StartsWith(s, prefix) ==
    Len(s) >= Len(prefix) /\ SubSeq(s, 1, Len(prefix)) = prefix
RECURSIVE UnescapeString(_)
UnescapeString(s) ==
    IF s = <<>> THEN <<>>
    ELSE IF StartsWith(s, EntityAmp)
        THEN <<"&">> \o UnescapeString(SubSeq(s, Len(EntityAmp) + 1, Len(s)))
    ELSE IF StartsWith(s, EntityLt)
        THEN <<"<">> \o UnescapeString(SubSeq(s, Len(EntityLt) + 1, Len(s)))
    ELSE <<Head(s)>> \o UnescapeString(Tail(s))

(***************************************************************************)
(* Data model: RequestData, the configuration defaults, ResponseData.      *)
(***************************************************************************)
\* RequestData after json.Unmarshal of a body that sets no field.
ZeroRequest ==
    [Indexer |-> "", TorrentID |-> 0, REDUserID |-> 0, OPSUserID |-> 0,
     REDKey |-> "", OPSKey |-> "", MinRatio |-> 0, MinSize |-> 0, MaxSize |-> 0,
     Uploaders |-> <<>>, Mode |-> "", RecordLabel |-> <<>>]

\* A member of the JSON payload: either left out, or sent with a value.
Omitted(zero) == [sent |-> FALSE, value |-> zero]
Sent(value) == [sent |-> TRUE, value |-> value]

\* json.Unmarshal(body, &requestData), line 474, for a payload given by its
\* members: a member that is left out leaves the field at its zero value,
\* and RequestData keeps no trace of whether it was sent.
Field(member, zero) == IF member.sent THEN member.value ELSE zero
jsonUnmarshal(payload) ==
    [ZeroRequest EXCEPT
        !.Indexer = Field(payload.indexer, ""),
        !.TorrentID = Field(payload.torrent_id, 0),
        !.REDUserID = Field(payload.red_user_id, 0),
        !.MinRatio = Field(payload.minratio, 0),
        !.MinSize = Field(payload.minsize, 0),
        !.MaxSize = Field(payload.maxsize, 0),
        !.Uploaders = Field(payload.uploaders, <<>>),
        !.Mode = Field(payload.mode, "")]

\* var torrentData *ResponseData / var userData *ResponseData before any fetch.
NoData == [Status |-> "nil"]

\* ResponseData.Response.Torrent == nil
NoTorrent == [present |-> FALSE]

\* What the network gives for one GET: net = "down" is a transport failure
\* or a timeout before the response headers (http.DefaultClient.Do returns
\* a nil response and an error), net = "garbled" a body that io.ReadAll
\* cuts short or that is not JSON, otherwise the JSON envelope
\* {status, error, response}.
TransportFailure == [net |-> "down"]
Garbled == [net |-> "garbled"]
Envelope(state, torrent, ratio) ==
    [net |-> "ok", Status |-> state, Error |-> "", Torrent |-> torrent, Ratio |-> ratio]
WithError(reply, text) == [reply EXCEPT !.Error = text]
TorrentOf(username, size, label) ==
    [present |-> TRUE, Username |-> username, Size |-> size, RecordLabel |-> label]

\* json.Unmarshal(respBody, target): a body that cannot be decoded leaves
\* the zero ResponseData in target, and the error is only logged.
Unmarshal(reply) == IF reply.net = "ok" THEN reply ELSE Envelope("", NoTorrent, 0)

\* The value fetchAPI leaves in *ResponseData for a decoded envelope.
Decoded(reply) == [Status |-> reply.Status, Torrent |-> reply.Torrent, Ratio |-> reply.Ratio]

(***************************************************************************)
(* HookData, lines 492-519: each field falls back to the configuration     *)
(* default when the request leaves it zero or empty.  record_labels has    *)
(* no fallback.                                                            *)
(***************************************************************************)
\* Defaults that only a request with no parameter of its own gets.
MergeDefaultsAllOrNothing(rd, cfg) ==
    IF /\ rd.REDUserID = 0 /\ rd.OPSUserID = 0 /\ rd.REDKey = "" /\ rd.OPSKey = ""
       /\ rd.MinRatio = 0 /\ rd.MinSize = 0 /\ rd.MaxSize = 0
       /\ rd.Uploaders = <<>> /\ rd.Mode = ""
      THEN [rd EXCEPT
              !.REDUserID = cfg.REDUserID, !.OPSUserID = cfg.OPSUserID,
              !.REDKey = cfg.REDKey, !.OPSKey = cfg.OPSKey,
              !.MinRatio = cfg.MinRatio, !.MinSize = cfg.MinSize, !.MaxSize = cfg.MaxSize,
              !.Uploaders = cfg.Uploaders, !.Mode = cfg.Mode]
      ELSE rd
\* No fallback: the request's value is kept, zero or not.
OrDefaultNever(v, zero, dflt) == v
\* Defaults that only the first request received gets.
OrDefaultOnce(v, zero, dflt) == IF v = zero /\ served = 0 THEN dflt ELSE v
OrDefault(v, zero, dflt) == IF v = zero THEN dflt ELSE v

MergeDefaults(rd, cfg) ==
    [rd EXCEPT
        !.REDUserID = OrDefault(rd.REDUserID, 0, cfg.REDUserID),
        !.OPSUserID = OrDefault(rd.OPSUserID, 0, cfg.OPSUserID),
        !.REDKey = OrDefault(rd.REDKey, "", cfg.REDKey),
        !.OPSKey = OrDefault(rd.OPSKey, "", cfg.OPSKey),
        !.MinRatio = OrDefault(rd.MinRatio, 0, cfg.MinRatio),
        !.MinSize = OrDefault(rd.MinSize, 0, cfg.MinSize),
        !.MaxSize = OrDefault(rd.MaxSize, 0, cfg.MaxSize),
        !.Uploaders = OrDefault(rd.Uploaders, <<>>, cfg.Uploaders),
        !.Mode = OrDefault(rd.Mode, "", cfg.Mode)]

\* An indexer check that only rejects the absent indexer.
ValidIndexerNonEmpty(indexer) == indexer # ""
\* HookData, lines 481-490.
ValidIndexer(indexer) == indexer = "ops" \/ indexer = "redacted"

\* HookData, lines 526-535.
APIEndpointBaseRedacted == "https://redacted.ch/ajax.php"
APIEndpointBaseOrpheus == "https://orpheus.network/ajax.php"
ApiBase(indexer) ==
    IF indexer = "redacted" THEN APIEndpointBaseRedacted ELSE APIEndpointBaseOrpheus

\* The redacted key sent to whichever tracker is asked.
ApiKeyOfRedacted(rd) == rd.REDKey
\* fetchTorrentDataIfNeeded / fetchUserDataIfNeeded: the key and the user
\* id of the request's indexer.
ApiKeyOf(rd) == IF rd.Indexer = "redacted" THEN rd.REDKey ELSE rd.OPSKey
UserIDOf(rd) == IF rd.Indexer = "redacted" THEN rd.REDUserID ELSE rd.OPSUserID

(***************************************************************************)
(* The four rules of HookData: when each runs and when it rejects.         *)
(***************************************************************************)
StatusUploaderNotAllowed == StatusIMUsed + 1
StatusLabelNotAllowed == StatusIMUsed + 2
StatusSizeNotAllowed == StatusIMUsed + 3
StatusRatioNotAllowed == StatusIMUsed

\* line 552
UploaderActive(rd) == rd.TorrentID # 0 /\ rd.Uploaders # <<>>
\* line 583
RecordLabelActive(rd) == rd.TorrentID # 0 /\ rd.RecordLabel # <<>>
\* A size rule that runs without a torrent id.
SizeActiveWithoutID(rd) == rd.MinSize # 0 \/ rd.MaxSize # 0
\* line 619
SizeActive(rd) == rd.TorrentID # 0 /\ (rd.MinSize # 0 \/ rd.MaxSize # 0)
\* A ratio rule that runs whatever minratio is.
RatioActiveAlways(rd) == TRUE
\* line 641
RatioActive(rd) == rd.MinRatio # 0

\* lines 558-573
IsListed(rd, torrent) == Contains(TrimAll(Split(rd.Uploaders)), torrent.Username)

\* An uploader rule that takes every mode but "whitelist" for "blacklist".
UploaderViolatesBlacklistByDefault(rd, torrent) ==
    IF rd.Mode = "whitelist" THEN ~IsListed(rd, torrent) ELSE IsListed(rd, torrent)
\* An uploader rule that rejects every listed uploader, whatever the mode.
UploaderViolatesIgnoringMode(rd, torrent) == IsListed(rd, torrent)
\* line 575
UploaderViolates(rd, torrent) ==
    \/ rd.Mode = "blacklist" /\ IsListed(rd, torrent)
    \/ rd.Mode = "whitelist" /\ ~IsListed(rd, torrent)

\* lines 589-615: no trimming and no case folding in HookData
RecordLabelViolates(rd, torrent) ==
    \/ torrent.RecordLabel = <<>>
    \/ ~Contains(Split(rd.RecordLabel), torrent.RecordLabel)

\* hooks.go, hookRecordLabel: the torrent's label unescaped, trimmed and
\* lowercased; the requested labels split on commas and normalized by
\* normalizeLabels; an empty label rejects, and so does a label that is
\* not among the requested ones.  normalizeLabels and contains are not in
\* the source files at hand: every requested label is unescaped, trimmed
\* and lowercased like the torrent's, and membership is equality.
normalizeLabels(labels) ==
    [k \in 1..Len(labels) |-> ToLower(TrimSpace(UnescapeString(labels[k])))]
contains(list, wanted) == \E k \in 1..Len(list) : list[k] = wanted
hookRecordLabel(rd, torrent) ==
    LET recordLabel == ToLower(TrimSpace(UnescapeString(torrent.RecordLabel)))
        requestedRecordLabels == normalizeLabels(Split(rd.RecordLabel))
    IN  \/ recordLabel = <<>>
        \/ ~contains(requestedRecordLabels, recordLabel)

\* The record-label rule of the build that runs.
LabelViolates(rd, torrent) ==
    IF hooks THEN hookRecordLabel(rd, torrent) ELSE RecordLabelViolates(rd, torrent)

\* A size rule that also rejects a size equal to a bound.
SizeViolatesAtBound(rd, torrent) ==
    \/ rd.MinSize # 0 /\ torrent.Size <= rd.MinSize
    \/ rd.MaxSize # 0 /\ torrent.Size >= rd.MaxSize
\* lines 625-633
SizeViolates(rd, torrent) ==
    \/ rd.MinSize # 0 /\ torrent.Size < rd.MinSize
    \/ rd.MaxSize # 0 /\ torrent.Size > rd.MaxSize

\* A ratio rule that also rejects a ratio equal to the floor.
RatioViolatesAtFloor(rd, user) == user.Ratio <= rd.MinRatio
\* line 653
RatioViolates(rd, user) == user.Ratio < rd.MinRatio

\* The three rules that read the torrent, by name: when each runs, when it
\* rejects and the status it rejects with.
RuleActive(rule, rd) ==
    CASE rule = "uploader" -> UploaderActive(rd)
      [] rule = "label" -> RecordLabelActive(rd)
      [] rule = "size" -> SizeActive(rd)
RuleViolates(rule, rd, torrent) ==
    CASE rule = "uploader" -> UploaderViolates(rd, torrent)
      [] rule = "label" -> LabelViolates(rd, torrent)
      [] rule = "size" -> SizeViolates(rd, torrent)
RuleStatus(rule) ==
    CASE rule = "uploader" -> StatusUploaderNotAllowed
      [] rule = "label" -> StatusLabelNotAllowed
      [] rule = "size" -> StatusSizeNotAllowed

\* The record-label block placed before the uploader block.
RuleAfterLabelFirst(rule) ==
    CASE rule = "start" -> "label"
      [] rule = "label" -> "uploader"
      [] rule = "uploader" -> "size"
      [] rule = "size" -> "ratio"
\* The order in which HookData runs its rules: the block that follows each
\* block, "start" being the code before the first.
RuleAfter(rule) ==
    CASE rule = "start" -> "uploader"
      [] rule = "uploader" -> "label"
      [] rule = "label" -> "size"
      [] rule = "size" -> "ratio"

(***************************************************************************)
(* The tracker API client and the per-evaluation fetch cache.              *)
(***************************************************************************)
\* The outcome of a fetch: res is "ok", "ratelimited" (limiter.Allow() said
\* no), "upstream" (envelope status other than "success"), "config" (no
\* user id) or "panic" (nil response dereferenced); bucket is the limiter's
\* bucket afterwards; sent tells whether a GET went out; data is what the
\* caller's *ResponseData holds afterwards; msg is the upstream error string
\* inside the error fetchAPI returns ("API error from %s: %s").
Fetched(res, bucket, wasSent, data) ==
    [res |-> res, bucket |-> bucket, sent |-> wasSent, data |-> data, msg |-> ""]
APIError(bucket, text) ==
    [Fetched("upstream", bucket, TRUE, NoData) EXCEPT !.msg = text]

\* fetchAPI sending the GET whatever limiter.Allow() says.
fetchAPIUnlimited(bucket, reply) ==
    IF reply.net = "down" THEN Fetched("panic", Take(bucket), TRUE, NoData)
    ELSE IF Unmarshal(reply).Status # "success"
      THEN APIError(Take(bucket), Unmarshal(reply).Error)
    ELSE Fetched("ok", Take(bucket), TRUE, Decoded(Unmarshal(reply)))
\* fetchAPI taking every decoded envelope for a success.
fetchAPITrusting(bucket, reply) ==
    IF ~Allow(bucket) THEN Fetched("ratelimited", Take(bucket), FALSE, NoData)
    ELSE IF reply.net = "down" THEN Fetched("panic", Take(bucket), TRUE, NoData)
    ELSE Fetched("ok", Take(bucket), TRUE, Decoded(Unmarshal(reply)))
\* fetchAPI: limiter.Allow() first; then the GET; a failed GET leaves resp
\* nil and `defer resp.Body.Close()` dereferences it; a decoded envelope
\* whose status is not "success" is an error, and so is a body that was not
\* decoded, because the target's status is still "".
fetchAPI(bucket, reply) ==
    IF ~Allow(bucket) THEN Fetched("ratelimited", Take(bucket), FALSE, NoData)
    ELSE IF reply.net = "down" THEN Fetched("panic", Take(bucket), TRUE, NoData)
    ELSE IF Unmarshal(reply).Status # "success"
      THEN APIError(Take(bucket), Unmarshal(reply).Error)
    ELSE Fetched("ok", Take(bucket), TRUE, Decoded(Unmarshal(reply)))

\* A fetch of the torrent that ignores what is already held.
fetchTorrentDataAlways(rd, cached, bucket, reply) == fetchAPI(bucket, reply)
\* fetchTorrentDataIfNeeded: nothing to do when *torrentData is set; an
\* error for an indexer that is neither "redacted" nor "ops".
fetchTorrentDataIfNeeded(rd, cached, bucket, reply) ==
    IF cached # NoData THEN Fetched("ok", bucket, FALSE, cached)
    ELSE IF rd.Indexer \notin Indexers THEN Fetched("indexer", bucket, FALSE, NoData)
    ELSE fetchAPI(bucket, reply)

\* A fetch of the user that does not look at the user id.
fetchUserDataUnchecked(rd, cached, bucket, reply) ==
    IF cached # NoData THEN Fetched("ok", bucket, FALSE, cached)
    ELSE IF rd.Indexer \notin Indexers THEN Fetched("indexer", bucket, FALSE, NoData)
    ELSE fetchAPI(bucket, reply)
\* A user fetch that asks the limiter before it looks at the user id.
fetchUserDataChargedFirst(rd, cached, bucket, reply) ==
    IF cached # NoData THEN Fetched("ok", bucket, FALSE, cached)
    ELSE IF rd.Indexer \notin Indexers THEN Fetched("indexer", bucket, FALSE, NoData)
    ELSE IF UserIDOf(rd) = 0 THEN Fetched("config", Take(bucket), FALSE, NoData)
    ELSE fetchAPI(bucket, reply)
\* fetchUserDataIfNeeded: nothing to do when *userData is set; an error
\* for an unknown indexer and when the indexer's user id is 0.
fetchUserDataIfNeeded(rd, cached, bucket, reply) ==
    IF cached # NoData THEN Fetched("ok", bucket, FALSE, cached)
    ELSE IF rd.Indexer \notin Indexers THEN Fetched("indexer", bucket, FALSE, NoData)
    ELSE IF UserIDOf(rd) = 0 THEN Fetched("config", bucket, FALSE, NoData)
    ELSE fetchAPI(bucket, reply)

\* The GET that fetchTorrentData / fetchUserData send, with the limiter
\* that getLimiter(indexer) charged for it and the units it was charged.
\* reply is what the tracker answered to it.
TorrentCall(rd, cost, reply) ==
    [base |-> ApiBase(rd.Indexer), action |-> "torrent", id |-> rd.TorrentID,
     key |-> ApiKeyOf(rd), limiter |-> rd.Indexer, cost |-> cost, reply |-> reply]
UserCall(rd, cost, reply) ==
    [base |-> ApiBase(rd.Indexer), action |-> "user", id |-> UserIDOf(rd),
     key |-> ApiKeyOf(rd), limiter |-> rd.Indexer, cost |-> cost, reply |-> reply]

(***************************************************************************)
(* Bounds of the model and the inputs it draws.                            *)
(***************************************************************************)
\* Workers that may run HookData at the same time (net/http runs one
\* goroutine per request).
NProcs == 2
\* Requests received in one behaviour of the sequential specifications.
MaxEvals == 1
\* Requests received in one behaviour of the concurrent specification.
MaxConcEvals == 4
\* Runs of the same request in SpecRerun.
MaxRuns == 6

Procs == 1..NProcs

\* Strings used in requests and replies.
sAB == <<"a", ",", " ", "b">>
sB == <<"b">>
sC == <<"c">>
sXY == <<"x", ",", "y">>
sX == <<"x">>

\* The configuration file's defaults: none set, or all set.
ConfigZero ==
    [REDUserID |-> 0, OPSUserID |-> 0, REDKey |-> "", OPSKey |-> "", MinRatio |-> 0,
     MinSize |-> 0, MaxSize |-> 0, Uploaders |-> <<>>, Mode |-> "", RecordLabel |-> <<>>]
ConfigDefaults ==
    [REDUserID |-> 8, OPSUserID |-> 9, REDKey |-> "redkey", OPSKey |-> "opskey",
     MinRatio |-> 3, MinSize |-> 1, MaxSize |-> 5, Uploaders |-> sC, Mode |-> "blacklist",
     RecordLabel |-> sX]
Configs == {ConfigZero, ConfigDefaults}

\* A decoded request; the user id is given for the request's own indexer.
Req(indexer, tid, uid, minratio, minsize, maxsize, uploaders, mode, label) ==
    [Indexer |-> indexer, TorrentID |-> tid,
     REDUserID |-> IF indexer = "ops" THEN 0 ELSE uid,
     OPSUserID |-> IF indexer = "ops" THEN uid ELSE 0,
     REDKey |-> "", OPSKey |-> "", MinRatio |-> minratio,
     MinSize |-> minsize, MaxSize |-> maxsize,
     Uploaders |-> uploaders, Mode |-> mode, RecordLabel |-> label]

\* An inbound HTTP request: its method, whether its body can be read and
\* decoded, and the RequestData it decodes to.
Inbound(method, body, data) == [Method |-> method, Body |-> body, data |-> data]
Undecoded ==
    {Inbound("GET", "json", ZeroRequest), Inbound("POST", "unreadable", ZeroRequest),
     Inbound("POST", "malformed", ZeroRequest)}

SpecRequests ==
    Undecoded \cup
    {Inbound("POST", "json", Req(i, t, u, r, mn, mx, up, m, l)) :
        i \in {"redacted", "ops", "", "btn"}, t \in {0, 1}, u \in {0, 7}, r \in {0, 2},
        mn \in {0, 2}, mx \in {0, 4}, up \in {<<>>, sAB},
        m \in {"", "blacklist", "whitelist"}, l \in {<<>>, sXY}}

\* Non-success envelopes, with and without an error string.
UpstreamErrors ==
    {WithError(Envelope("failure", NoTorrent, 0), e) : e \in {"", "bad id parameter"}}

SpecTorrentReplies ==
    {TransportFailure, Garbled, Envelope("success", NoTorrent, 0)} \cup UpstreamErrors
    \cup {Envelope("success", TorrentOf(u, s, l), 0) :
            u \in {sB, sC}, s \in {1, 3, 5}, l \in {<<>>, sX}}

SpecUserReplies ==
    {TransportFailure, Garbled} \cup UpstreamErrors
    \cup {Envelope("success", NoTorrent, r) : r \in {1, 2}}

\* Requests that run the uploader rule alone, over lists and usernames that
\* differ in case, in blanks and in commas.
sBpad == <<" ", "b", " ">>
sUpperB == <<"B">>
sBC == <<"b", "c">>
sComma == <<"b", ",">>
UploaderLists == {sAB, sB, sBpad, sUpperB, sBC, sComma, <<",">>, <<" ">>}
UploaderNames == {sB, sUpperB, sBpad, sBC, <<"a">>, <<>>, sAB}
UploaderRequests ==
    {Inbound("POST", "json", Req(i, 1, 0, 0, 0, 0, up, m, <<>>)) :
        i \in Indexers, up \in UploaderLists,
        m \in {"", "blacklist", "whitelist", "Blacklist"}}
UploaderReplies ==
    {Envelope("failure", NoTorrent, 0)}
    \cup {Envelope("success", TorrentOf(u, 1, <<>>), 0) : u \in UploaderNames}

\* Requests that run the record-label rule alone, over requested lists
\* and labels that differ in case, in blanks and in HTML entities ("w r"
\* stands for a label of two words).
sWR == <<"w", " ", "r">>
sWRpad == <<" ", "W", " ", "R", " ">>
sXblank == <<"x", ",", " ">>
LabelLists == {sWR, sXY, sXblank, <<" ", "W", " ", "R", ",", "x">>, EntityAmp, <<"&">>}
LabelNames == {sWRpad, sWR, <<>>, <<" ">>, sX, <<"X">>, <<"&">>, EntityAmp, <<"z">>}
LabelRequests ==
    {Inbound("POST", "json", Req(i, 1, 0, 0, 0, 0, <<>>, "", l)) :
        i \in Indexers, l \in LabelLists}
LabelReplies ==
    {Envelope("failure", NoTorrent, 0)}
    \cup {Envelope("success", TorrentOf(sB, 1, n), 0) : n \in LabelNames}

\* Requests of concurrent evaluations: the uploader rule and the ratio rule
\* on either tracker, two GETs each.
ConcRequests ==
    {Inbound("POST", "json", Req(i, t, 7, 2, 0, 0, sAB, "blacklist", <<>>)) :
        i \in Indexers, t \in {1}}
ConcTorrentReplies == {Envelope("success", TorrentOf(sC, 3, sX), 0)}
ConcUserReplies == {Envelope("success", NoTorrent, 2)}

\* Requests that are run again and again against trackers that do not change.
RerunRequests ==
    {Inbound("GET", "json", ZeroRequest)} \cup
    {Inbound("POST", "json", Req(i, t, u, r, 0, mx, up, "whitelist", <<>>)) :
        i \in {"redacted", "ops", "btn"}, t \in {0, 1}, u \in {0, 7}, r \in {0, 2},
        mx \in {0, 4}, up \in {<<>>, sAB}}
RerunUpstreams ==
    {[torrent |-> t, user |-> u] :
        t \in {Envelope("failure", NoTorrent, 0), Envelope("success", NoTorrent, 0),
               Envelope("success", TorrentOf(sB, 3, sX), 0),
               Envelope("success", TorrentOf(sC, 5, sX), 0)},
        u \in {TransportFailure, Envelope("success", NoTorrent, 1),
               Envelope("success", NoTorrent, 2)}}

NoOutcome == [status |-> -1, err |-> "none", pc |-> "idle"]
NoInbound == Inbound("", "", ZeroRequest)
SomeUpstream == [torrent |-> TransportFailure, user |-> TransportFailure]

(***************************************************************************)
(* The state after construction: full buckets (init), a configuration      *)
(* read from the file, no request in progress.                             *)
(***************************************************************************)
Started(cfgs, decodable, observable, upstreams, rerunnable, builds) ==
    /\ tokens = [i \in Indexers |-> Full(i)]
    /\ sent = [i \in Indexers |-> 0]
    /\ config \in cfgs
    /\ viperOK \in decodable
    /\ file = config
    /\ watcher = "idle"
    /\ alive = TRUE
    /\ served = 0
    /\ pc = [p \in Procs |-> "idle"]
    /\ inbound = [p \in Procs |-> NoInbound]
    /\ requestData = [p \in Procs |-> ZeroRequest]
    /\ torrentData = [p \in Procs |-> NoData]
    /\ userData = [p \in Procs |-> NoData]
    /\ status = [p \in Procs |-> 0]
    /\ errKind = [p \in Procs |-> "none"]
    /\ errText = [p \in Procs |-> ""]
    /\ calls = [p \in Procs |-> <<>>]
    /\ upstream \in upstreams
    /\ rerun \in rerunnable
    /\ hooks \in builds
    /\ first = NoOutcome
    /\ observed \in observable
    /\ wPhase = "none"
    /\ wAge = 0
    /\ wCalls = 0
    /\ wLast = "none"
    /\ wSawDenied = FALSE
    /\ idle = -1

(***************************************************************************)
(* HookData, step by step.                                                 *)
(***************************************************************************)
\* http.Error(w, ..., code); return
Ends(p, code, kind) ==
    /\ pc' = [pc EXCEPT ![p] = "done"]
    /\ status' = [status EXCEPT ![p] = code]
    /\ errKind' = [errKind EXCEPT ![p] = kind]
    /\ UNCHANGED errText

\* A fetch error that is only logged, the rule block being entered again.
FailsAndRetries(p, f) == UNCHANGED <<pc, status, errKind, errText>>
\* http.Error(w, err.Error(), http.StatusInternalServerError); return, for
\* the error of a fetch: the body written is the error's text.
Fails(p, f) ==
    /\ pc' = [pc EXCEPT ![p] = "done"]
    /\ status' = [status EXCEPT ![p] = StatusInternalServerError]
    /\ errKind' = [errKind EXCEPT ![p] = f.res]
    /\ errText' = [errText EXCEPT ![p] = f.msg]

\* A nil dereference panics; net/http recovers it in the connection's
\* goroutine and closes the connection without a response.
Panics(p) ==
    /\ pc' = [pc EXCEPT ![p] = "panicked"]
    /\ UNCHANGED <<status, errKind, errText>>

Goes(p, next) ==
    /\ pc' = [pc EXCEPT ![p] = next]
    /\ UNCHANGED <<status, errKind, errText>>

\* Lines 453-549: method, body, JSON, indexer, merge with the defaults,
\* and the second decode of the configuration, whose failure is fatal.
Receive(p, r, max) ==
    /\ alive
    /\ pc[p] = "idle"
    /\ served < max
    /\ served' = served + 1
    /\ inbound' = [inbound EXCEPT ![p] = r]
    /\ UNCHANGED <<limVars, winVars, envVars, torrentData, userData, calls, first>>
    /\ IF r.Method # "POST"
         THEN Ends(p, StatusBadRequest, "input") /\ UNCHANGED <<requestData, alive>>
       ELSE IF r.Body = "unreadable"
         THEN Ends(p, StatusInternalServerError, "body") /\ UNCHANGED <<requestData, alive>>
       ELSE IF r.Body = "malformed"
         THEN Ends(p, StatusBadRequest, "input") /\ UNCHANGED <<requestData, alive>>
       ELSE IF ~ValidIndexer(r.data.Indexer)
         THEN /\ Ends(p, StatusBadRequest, "input")
              /\ requestData' = [requestData EXCEPT ![p] = r.data]
              /\ UNCHANGED alive
       ELSE /\ requestData' = [requestData EXCEPT ![p] = MergeDefaults(r.data, config)]
            /\ IF viperOK
                 THEN Goes(p, RuleAfter("start")) /\ UNCHANGED alive
                 ELSE /\ alive' = FALSE
                      /\ pc' = [pc EXCEPT ![p] = "fatal"]
                      /\ UNCHANGED <<status, errKind, errText>>

\* The replies a step may see: only a step that sends a GET sees one.
Seen(replies, sends) == IF sends THEN replies ELSE {TransportFailure}

\* getLimiter(indexer): the bucket of the indexer's limiter (nil, here an
\* empty bucket, for an unknown indexer), and the buckets after a fetch.
BucketOf(indexer) == IF indexer \in Indexers THEN tokens[indexer] ELSE 0
\* One budget for both trackers: a call takes its token from every limiter.
ChargedTogether(indexer, f) ==
    [i \in Indexers |->
        IF i = indexer \/ indexer \notin Indexers THEN f.bucket
        ELSE IF tokens[i] >= tokens[indexer] - f.bucket
          THEN tokens[i] - (tokens[indexer] - f.bucket) ELSE 0]
\* The buckets after a fetch: only the indexer's own limiter is charged.
Charged(indexer, f) ==
    [i \in Indexers |-> IF i = indexer THEN f.bucket ELSE tokens[i]]
Counted(indexer, f) ==
    [i \in Indexers |-> IF i = indexer /\ f.sent THEN sent[i] + 1 ELSE sent[i]]

\* Parameters merged again with the configuration at every rule.
EffectiveMergedAgain(p) == MergeDefaults(inbound[p].data, config)
\* The parameters that the rule blocks read: HookData's local requestData,
\* as the merge of lines 492-519 left it.
Effective(p) == requestData[p]

\* A rejection that writes the rule's status and goes on to the next rule.
RejectsAndGoesOn(p, rule) ==
    /\ pc' = [pc EXCEPT ![p] = RuleAfter(rule)]
    /\ status' = [status EXCEPT ![p] = RuleStatus(rule)]
    /\ UNCHANGED <<errKind, errText>>
\* http.Error(w, ..., StatusXNotAllowed); return (lines 575-579, 611-615,
\* 627-636).
Rejects(p, rule) == Ends(p, RuleStatus(rule), "none")

\* One of the three rules that read the torrent: lines 551-580, 582-616,
\* 618-638.
TorrentRule(p, reply, rule) ==
    LET rd == Effective(p)
        f == fetchTorrentDataIfNeeded(rd, torrentData[p], BucketOf(rd.Indexer), reply)
    IN  /\ alive
        /\ pc[p] = rule
        /\ UNCHANGED <<winVars, envVars, inbound, requestData, userData,
                       alive, served, first>>
        /\ IF ~RuleActive(rule, rd)
             THEN Goes(p, RuleAfter(rule)) /\ UNCHANGED <<tokens, sent, torrentData, calls>>
             ELSE /\ tokens' = Charged(rd.Indexer, f)
                  /\ sent' = Counted(rd.Indexer, f)
                  /\ calls' = IF f.sent
                                THEN [calls EXCEPT ![p] =
                                        Append(@, TorrentCall(rd, BucketOf(rd.Indexer) - f.bucket, reply))]
                                ELSE calls
                  /\ torrentData' = [torrentData EXCEPT ![p] = f.data]
                  /\ IF f.res = "panic" THEN Panics(p)
                     ELSE IF f.res # "ok" THEN Fails(p, f)
                     ELSE IF f.data.Torrent = NoTorrent THEN Panics(p)
                     ELSE IF RuleViolates(rule, rd, f.data.Torrent)
                       THEN Rejects(p, rule)
                     ELSE Goes(p, RuleAfter(rule))

\* lines 551-580
HookUploader(p, reply) == TorrentRule(p, reply, "uploader")

\* lines 582-616
HookRecordLabel(p, reply) == TorrentRule(p, reply, "label")

\* lines 618-638
HookSize(p, reply) == TorrentRule(p, reply, "size")

\* Lines 640-662: the ratio rule, then w.WriteHeader(http.StatusOK).
HookRatio(p, reply) ==
    LET rd == Effective(p)
        f == fetchUserDataIfNeeded(rd, userData[p], BucketOf(rd.Indexer), reply)
    IN  /\ alive
        /\ pc[p] = "ratio"
        /\ UNCHANGED <<winVars, envVars, inbound, requestData, torrentData,
                       alive, served, first>>
        /\ IF ~RatioActive(rd)
             THEN Ends(p, StatusOK, "none") /\ UNCHANGED <<tokens, sent, userData, calls>>
             ELSE /\ tokens' = Charged(rd.Indexer, f)
                  /\ sent' = Counted(rd.Indexer, f)
                  /\ calls' = IF f.sent
                                THEN [calls EXCEPT ![p] =
                                        Append(@, UserCall(rd, BucketOf(rd.Indexer) - f.bucket, reply))]
                                ELSE calls
                  /\ userData' = [userData EXCEPT ![p] = f.data]
                  /\ IF f.res = "panic" THEN Panics(p)
                     ELSE IF f.res # "ok" THEN Fails(p, f)
                     ELSE IF RatioViolates(rd, f.data) THEN Ends(p, StatusRatioNotAllowed, "none")
                     ELSE Ends(p, StatusOK, "none")

\* HookData has returned (or panicked): its locals are gone and the worker
\* can take the next request.
Returns(p) ==
    /\ alive
    /\ pc[p] \in {"done", "panicked"}
    /\ pc' = [pc EXCEPT ![p] = "idle"]
    /\ inbound' = [inbound EXCEPT ![p] = NoInbound]
    /\ requestData' = [requestData EXCEPT ![p] = ZeroRequest]
    /\ torrentData' = [torrentData EXCEPT ![p] = NoData]
    /\ userData' = [userData EXCEPT ![p] = NoData]
    /\ status' = [status EXCEPT ![p] = 0]
    /\ errKind' = [errKind EXCEPT ![p] = "none"]
    /\ errText' = [errText EXCEPT ![p] = ""]
    /\ calls' = [calls EXCEPT ![p] = <<>>]
    /\ UNCHANGED <<limVars, winVars, envVars, alive, served>>

Finish(p) == Returns(p) /\ UNCHANGED first

\* What the caller saw of worker p's evaluation.
Outcome(p) == [status |-> status[p], err |-> errKind[p], pc |-> pc[p]]

\* The same, keeping the outcome of the first run of a request that is run
\* again and again.
FinishRun(p) ==
    /\ Returns(p)
    /\ first' = IF first = NoOutcome THEN Outcome(p) ELSE first

\* handleConfigChange, lines 94-113, runs in the file watcher's goroutine
\* and writes the process-wide config in place, without a lock, in four
\* steps.  Line 97: viper.ReadInConfig() reads the changed file.
ReloadRead(c, decodable) ==
    /\ alive
    /\ watcher = "idle"
    /\ c # file \/ decodable # viperOK
    /\ file' = c
    /\ viperOK' = decodable
    /\ watcher' = "read"
    /\ UNCHANGED <<limVars, winVars, config, upstream, rerun, hooks, procVars,
                   alive, served, first>>

\* Lines 101-104: viper.Unmarshal(&config) overwrites the decoded fields and
\* leaves ParsedSizes as it was; when it fails the handler returns.
ReloadUnmarshal ==
    /\ alive
    /\ watcher = "read"
    /\ config' = IF viperOK
                    THEN [file EXCEPT !.MinSize = config.MinSize, !.MaxSize = config.MaxSize]
                    ELSE config
    /\ watcher' = IF viperOK THEN "unmarshalled" ELSE "idle"
    /\ UNCHANGED <<limVars, winVars, viperOK, file, upstream, rerun, hooks, procVars,
                   alive, served, first>>

\* parseSizeCheck, lines 64-73: config.ParsedSizes.MinSize
ReloadParseMin ==
    /\ alive
    /\ watcher = "unmarshalled"
    /\ config' = [config EXCEPT !.MinSize = file.MinSize]
    /\ watcher' = "minparsed"
    /\ UNCHANGED <<limVars, winVars, viperOK, file, upstream, rerun, hooks, procVars,
                   alive, served, first>>

\* parseSizeCheck, lines 75-84: config.ParsedSizes.MaxSize
ReloadParseMax ==
    /\ alive
    /\ watcher = "minparsed"
    /\ config' = [config EXCEPT !.MaxSize = file.MaxSize]
    /\ watcher' = "idle"
    /\ UNCHANGED <<limVars, winVars, viperOK, file, upstream, rerun, hooks, procVars,
                   alive, served, first>>

(***************************************************************************)
(* Time and bare calls of limiter.Allow().                                 *)
(***************************************************************************)
\* One call of limiter.Allow() on the observed limiter, with the window
\* bookkeeping: a window opens with the first call made on a full bucket.
AllowCall ==
    LET i == observed
        ok == Allow(tokens[i])
        res == IF ok THEN "ok" ELSE "denied"
    IN  /\ alive
        /\ tokens' = [tokens EXCEPT ![i] = Take(tokens[i])]
        /\ sent' = IF ok THEN [sent EXCEPT ![i] = @ + 1] ELSE sent
        /\ wLast' = res
        /\ idle' = IF Take(tokens[i]) < Window THEN 0 ELSE -1
        /\ IF wPhase = "in" /\ wAge < Window /\ wCalls <= Burst(i)
             THEN /\ wPhase' = "in"
                  /\ wCalls' = wCalls + 1
                  /\ wSawDenied' = (wSawDenied \/ ~ok)
                  /\ wAge' = wAge
             ELSE IF wPhase = "in" /\ wAge >= Window
             THEN /\ wPhase' = "after"
                  /\ UNCHANGED <<wCalls, wSawDenied, wAge>>
             ELSE IF tokens[i] = Full(i)
             THEN /\ wPhase' = "in"
                  /\ wCalls' = 1
                  /\ wSawDenied' = FALSE
                  /\ wAge' = 0
             ELSE /\ wPhase' = "none"
                  /\ wCalls' = 0
                  /\ wSawDenied' = FALSE
                  /\ wAge' = 0
        /\ UNCHANGED <<observed, envVars, procVars, alive, served, first>>

\* d seconds pass: every bucket refills.
Elapse(d) ==
    /\ alive
    /\ tokens' = [i \in Indexers |-> Refill(i, tokens[i], d)]
    /\ sent' = [i \in Indexers |-> 0]
    /\ wAge' = IF wPhase = "in" THEN Min(Window, wAge + d) ELSE wAge
    /\ idle' = IF idle >= 0 THEN Min(Window + 1, idle + d) ELSE idle
    /\ UNCHANGED <<observed, wPhase, wCalls, wLast, wSawDenied>>
    /\ UNCHANGED <<envVars, procVars, alive, served, first>>

(***************************************************************************)
(* Specifications.                                                         *)
(***************************************************************************)
\* Whether the step of worker p at `here` sends a GET for the torrent / the user.
SendsTorrent(p, rule) ==
    /\ pc[p] = rule
    /\ RuleActive(rule, requestData[p])
    /\ fetchTorrentDataIfNeeded(requestData[p], torrentData[p],
                                BucketOf(requestData[p].Indexer), TransportFailure).sent
SendsUser(p) ==
    /\ pc[p] = "ratio"
    /\ RatioActive(requestData[p])
    /\ fetchUserDataIfNeeded(requestData[p], userData[p],
                             BucketOf(requestData[p].Indexer), TransportFailure).sent

\* The steps of worker p on a request of `requests`, the trackers answering
\* with any of `torrents` and `users`.
Uploader(p, torrents) ==
    \E reply \in Seen(torrents, SendsTorrent(p, "uploader")) :
        HookUploader(p, reply)
RecordLabel(p, torrents) ==
    \E reply \in Seen(torrents, SendsTorrent(p, "label")) :
        HookRecordLabel(p, reply)
Size(p, torrents) ==
    \E reply \in Seen(torrents, SendsTorrent(p, "size")) :
        HookSize(p, reply)
Ratio(p, users) ==
    \E reply \in Seen(users, SendsUser(p)) : HookRatio(p, reply)

\* One worker, one request from a fresh start, any reply, time passing by
\* windows.
Init == Started(Configs, BOOLEAN, {"redacted"}, {SomeUpstream}, {NoInbound}, {FALSE})

Next ==
    \/ \E r \in SpecRequests : Receive(1, r, MaxEvals)
    \/ Uploader(1, SpecTorrentReplies)
    \/ RecordLabel(1, SpecTorrentReplies)
    \/ Size(1, SpecTorrentReplies)
    \/ Ratio(1, SpecUserReplies)
    \/ Finish(1)
    \/ Elapse(Window)

Spec == Init /\ [][Next]_vars

\* One worker and the uploader rule alone.
InitUploader == Started({ConfigZero}, {TRUE}, {"redacted"}, {SomeUpstream}, {NoInbound}, {FALSE})

NextUploader ==
    \/ \E r \in UploaderRequests : Receive(1, r, MaxEvals)
    \/ Uploader(1, UploaderReplies)
    \/ RecordLabel(1, UploaderReplies)
    \/ Size(1, UploaderReplies)
    \/ Ratio(1, SpecUserReplies)
    \/ Finish(1)

SpecUploader == InitUploader /\ [][NextUploader]_vars

\* One worker and the record-label rule alone, in either build.
InitLabel == Started({ConfigZero}, {TRUE}, {"redacted"}, {SomeUpstream}, {NoInbound}, BOOLEAN)

NextLabel ==
    \/ \E r \in LabelRequests : Receive(1, r, MaxEvals)
    \/ Uploader(1, LabelReplies)
    \/ RecordLabel(1, LabelReplies)
    \/ Size(1, LabelReplies)
    \/ Ratio(1, SpecUserReplies)
    \/ Finish(1)

SpecLabel == InitLabel /\ [][NextLabel]_vars

\* Every worker, evaluations running at the same time on the two limiters.
InitConc == Started({ConfigDefaults}, {TRUE}, {"redacted"}, {SomeUpstream}, {NoInbound}, {FALSE})

NextConc ==
    \/ \E p \in Procs :
        \/ \E r \in ConcRequests : Receive(p, r, MaxConcEvals)
        \/ Uploader(p, ConcTorrentReplies)
        \/ RecordLabel(p, ConcTorrentReplies)
        \/ Size(p, ConcTorrentReplies)
        \/ Ratio(p, ConcUserReplies)
        \/ Finish(p)
    \/ Elapse(Window)

SpecConc == InitConc /\ [][NextConc]_vars

\* One worker running one request again and again with the same
\* configuration, the trackers answering the same every time.
InitRerun == Started(Configs, {TRUE}, {"redacted"}, RerunUpstreams, RerunRequests, {FALSE})

NextRerun ==
    \/ Receive(1, rerun, MaxRuns)
    \/ Uploader(1, {upstream.torrent})
    \/ RecordLabel(1, {upstream.torrent})
    \/ Size(1, {upstream.torrent})
    \/ Ratio(1, {upstream.user})
    \/ FinishRun(1)
    \/ Elapse(Window)

SpecRerun == InitRerun /\ [][NextRerun]_vars

\* The limiters alone: calls of Allow on one of them, time passing by seconds.
InitLimiter == Started({ConfigZero}, {TRUE}, Indexers, {SomeUpstream}, {NoInbound}, {FALSE})

NextLimiter ==
    \/ AllowCall
    \/ \E d \in 1..Window : Elapse(d)

SpecLimiter == InitLimiter /\ [][NextLimiter]_vars

\* Configurations that set the identities alone, or the rule defaults
\* alone, and requests that set each parameter or leave it out.
ConfigIDs ==
    [ConfigZero EXCEPT !.REDUserID = 8, !.OPSUserID = 9,
                       !.REDKey = "redkey", !.OPSKey = "opskey"]
ConfigRules ==
    [ConfigDefaults EXCEPT !.REDUserID = 0, !.OPSUserID = 0, !.REDKey = "", !.OPSKey = ""]
MergeConfigs == {ConfigZero, ConfigDefaults, ConfigIDs, ConfigRules}

WithKey(rd, key) ==
    [rd EXCEPT !.REDKey = IF rd.Indexer = "ops" THEN "" ELSE key,
               !.OPSKey = IF rd.Indexer = "ops" THEN key ELSE ""]
MergeRequests ==
    {Inbound("POST", "json", WithKey(Req(i, 1, u, r, mn, mx, up, m, l), k)) :
        i \in Indexers, u \in {0, 7}, r \in {0, 2}, mn \in {0, 2}, mx \in {0, 4},
        up \in {<<>>, sAB}, m \in {"", "whitelist"}, l \in {<<>>, sXY},
        k \in {"", "reqkey"}}
MergeTorrentReplies == {TransportFailure, Envelope("success", TorrentOf(sB, 3, sX), 0)}
MergeUserReplies == {Envelope("success", NoTorrent, 2)}

\* One worker, one request, over configurations and requests that set the
\* parameters independently of each other.
InitMerge == Started(MergeConfigs, {TRUE}, {"redacted"}, {SomeUpstream}, {NoInbound}, {FALSE})

NextMerge ==
    \/ \E r \in MergeRequests : Receive(1, r, MaxEvals)
    \/ Uploader(1, MergeTorrentReplies)
    \/ RecordLabel(1, MergeTorrentReplies)
    \/ Size(1, MergeTorrentReplies)
    \/ Ratio(1, MergeUserReplies)
    \/ Finish(1)

SpecMerge == InitMerge /\ [][NextMerge]_vars

\* The versions of the configuration file, and requests that leave their
\* parameters to the defaults or set some of them.
ReloadVersions == {ConfigZero, ConfigDefaults}
ReloadRequests ==
    {Inbound("POST", "json", Req("redacted", 1, 0, r, 0, mx, <<>>, "", <<>>)) :
        r \in {0, 2}, mx \in {0, 4}}
ReloadTorrentReplies ==
    {Envelope("success", TorrentOf(u, 3, sX), 0) : u \in {sB, sC}}
ReloadUserReplies == {Envelope("success", NoTorrent, 2)}

\* One worker, with the configuration file changing underneath it.
InitReload == Started({ConfigZero}, {TRUE}, {"redacted"}, {SomeUpstream}, {NoInbound}, {FALSE})

NextReload ==
    \/ \E r \in ReloadRequests : Receive(1, r, MaxEvals)
    \/ Uploader(1, ReloadTorrentReplies)
    \/ RecordLabel(1, ReloadTorrentReplies)
    \/ Size(1, ReloadTorrentReplies)
    \/ Ratio(1, ReloadUserReplies)
    \/ Finish(1)
    \/ \E c \in ReloadVersions, decodable \in BOOLEAN : ReloadRead(c, decodable)
    \/ ReloadUnmarshal
    \/ ReloadParseMin
    \/ ReloadParseMax

SpecReload == InitReload /\ [][NextReload]_vars

\* Payloads that leave out, send as zero / empty, or set each of the rule
\* parameters that have a default, and the requests they decode to.
Payload(minratio, minsize, maxsize, uploaders) ==
    [indexer |-> Sent("redacted"), torrent_id |-> Sent(1), red_user_id |-> Sent(7),
     minratio |-> minratio, minsize |-> minsize, maxsize |-> maxsize,
     uploaders |-> uploaders, mode |-> Omitted("")]
ZeroPayloads ==
    {Payload(r, mn, mx, up) :
        r \in {Omitted(0), Sent(0), Sent(2)},
        mn \in {Omitted(0), Sent(0), Sent(2)},
        mx \in {Omitted(0), Sent(0), Sent(4)},
        up \in {Omitted(<<>>), Sent(<<>>), Sent(sAB)}}
InboundJSON(payload) ==
    [Method |-> "POST", Body |-> "json", data |-> jsonUnmarshal(payload),
     payload |-> payload]
ZeroRequests == {InboundJSON(payload) : payload \in ZeroPayloads}
ZeroTorrentReplies == {Envelope("success", TorrentOf(u, s, sX), 0) : u \in {sB, sC}, s \in {3, 6}}
ZeroUserReplies == {Envelope("success", NoTorrent, r) : r \in {2, 3}}

\* One worker, one request decoded from its payload, with or without
\* configured defaults.
InitZero == Started(Configs, {TRUE}, {"redacted"}, {SomeUpstream}, {NoInbound}, {FALSE})

NextZero ==
    \/ \E r \in ZeroRequests : Receive(1, r, MaxEvals)
    \/ Uploader(1, ZeroTorrentReplies)
    \/ RecordLabel(1, ZeroTorrentReplies)
    \/ Size(1, ZeroTorrentReplies)
    \/ Ratio(1, ZeroUserReplies)
    \/ Finish(1)

SpecZero == InitZero /\ [][NextZero]_vars

(***************************************************************************)
(* Claims about the limiters, checked under SpecLimiter.                   *)
(***************************************************************************)
\* C4: starting from a full bucket, the first N calls to Allow within one
\* 10-second window are permitted (N = 10 for redacted, 5 for ops), the
\* (N+1)-th call within that window is denied, and the first call made once
\* the window has elapsed is permitted again.
C4_WindowOfBurstCalls ==
    /\ (wPhase = "in" /\ wCalls \in 1..Burst(observed)) => wLast = "ok"
    /\ (wPhase = "in" /\ wCalls = Burst(observed) + 1) => wLast = "denied"
    /\ wPhase = "after" => wLast = "ok"

\* C4 witness: a window in which the (N+1)-th call was denied has elapsed
\* and the next call has been permitted.
C4_Witness ==
    /\ observed = "redacted"
    /\ wPhase = "after"
    /\ wCalls = BurstRedacted + 1
    /\ wSawDenied
    /\ wLast = "ok"

\* C5 as claimed: once a bucket has been emptied and one full 10-second
\* window has passed without a call, the limiter permits N further calls
\* (10 for redacted, 5 for ops), that is, the bucket is full again.
C5_WholeBurstRefilled ==
    idle = Window => tokens[observed] >= Burst(observed) * Window

(***************************************************************************)
(* Claims about one evaluation, checked under Spec.                        *)
(***************************************************************************)
\* The status of an evaluation whose fetches all delivered their record:
\* the code of the first rule, in the order uploader, record label, size,
\* ratio, that is active and violated, 200 when there is none.
C1_Expected(rd, td, ud) ==
    IF UploaderActive(rd) /\ UploaderViolates(rd, td.Torrent) THEN 227
    ELSE IF RecordLabelActive(rd) /\ RecordLabelViolates(rd, td.Torrent) THEN 228
    ELSE IF SizeActive(rd) /\ SizeViolates(rd, td.Torrent) THEN 229
    ELSE IF RatioActive(rd) /\ RatioViolates(rd, ud) THEN 226
    ELSE 200

\* C1: an evaluation that ran its rules to a response without a failed
\* fetch answers with the violation of the first rule, in the order
\* Uploader, RecordLabel, Size, Ratio, that is active and violated (200 if
\* none is); when Uploader and RecordLabel both violate the answer is the
\* Uploader violation, never the RecordLabel one.
C1_FirstViolationWins ==
    \A p \in Procs :
        (pc[p] = "done" /\ errKind[p] = "none") =>
            /\ status[p] = C1_Expected(requestData[p], torrentData[p], userData[p])
            /\ (/\ UploaderActive(requestData[p])
                /\ RecordLabelActive(requestData[p])
                /\ UploaderViolates(requestData[p], torrentData[p].Torrent)
                /\ RecordLabelViolates(requestData[p], torrentData[p].Torrent))
               => status[p] = 227 /\ status[p] # 228

\* C1 witness: the uploader rule and the record-label rule both violate and
\* the evaluation has answered 227.
C1_Witness ==
    /\ pc[1] = "done"
    /\ errKind[1] = "none"
    /\ status[1] = 227
    /\ RecordLabelActive(requestData[1])
    /\ RecordLabelViolates(requestData[1], torrentData[1].Torrent)
    /\ SizeActive(requestData[1])
    /\ SizeViolates(requestData[1], torrentData[1].Torrent)

\* The GETs for the torrent that worker p's evaluation has sent.
C2_TorrentCalls(p) == {k \in DOMAIN calls[p] : calls[p][k].action = "torrent"}

RECURSIVE C2_CostOf(_, _)
C2_CostOf(p, ks) ==
    IF ks = {} THEN 0
    ELSE LET k == CHOOSE j \in ks : TRUE IN calls[p][k].cost + C2_CostOf(p, ks \ {k})

\* C2: an evaluation whose uploader, record-label and size rules are all
\* active sends at most one GET for the torrent and takes at most one token
\* for it, whatever the rules decide.
C2_OneTorrentFetch ==
    \A p \in Procs :
        (/\ UploaderActive(requestData[p])
         /\ RecordLabelActive(requestData[p])
         /\ SizeActive(requestData[p]))
        => /\ Cardinality(C2_TorrentCalls(p)) <= 1
           /\ C2_CostOf(p, C2_TorrentCalls(p)) <= Window

\* C2 witness: the three torrent rules were all active, all three have run
\* and passed, and one GET for the torrent went out.
C2_Witness ==
    /\ pc[1] = "ratio"
    /\ UploaderActive(requestData[1])
    /\ RecordLabelActive(requestData[1])
    /\ SizeActive(requestData[1])
    /\ Cardinality(C2_TorrentCalls(1)) = 1
    /\ tokens[requestData[1].Indexer] = Full(requestData[1].Indexer) - Window

\* The rules that are active for the effective request rd, by the fields
\* each rule looks at.
C3_ActiveRules(rd) ==
    {rule \in {"uploader", "label", "size", "ratio"} :
        \/ rule = "uploader" /\ rd.TorrentID # 0 /\ rd.Uploaders # <<>>
        \/ rule = "label" /\ rd.TorrentID # 0 /\ rd.RecordLabel # <<>>
        \/ rule = "size" /\ rd.TorrentID # 0 /\ (rd.MinSize # 0 \/ rd.MaxSize # 0)
        \/ rule = "ratio" /\ rd.MinRatio # 0}

\* C3: an evaluation in which exactly one of the four rules is active sends
\* at most one GET in total.
C3_OneRuleOneCall ==
    \A p \in Procs :
        Cardinality(C3_ActiveRules(requestData[p])) = 1 => Len(calls[p]) <= 1

\* C3 witness: only the size rule was active, the evaluation has passed
\* every rule and has sent exactly one GET.
C3_Witness ==
    /\ pc[1] = "done"
    /\ status[1] = 200
    /\ C3_ActiveRules(requestData[1]) = {"size"}
    /\ Len(calls[1]) = 1

\* C8: a request that was decoded and whose indexer is neither "redacted"
\* nor "ops" (absent included) is answered 400, whatever its other fields
\* and whatever the configuration.
C8_BadIndexerIsInputError ==
    \A p \in Procs :
        (/\ pc[p] # "idle"
         /\ inbound[p].Method = "POST"
         /\ inbound[p].Body = "json"
         /\ inbound[p].data.Indexer \notin {"redacted", "ops"})
        => pc[p] = "done" /\ status[p] = 400 /\ calls[p] = <<>>

\* C8 witness: a request for an unknown indexer with every rule's fields
\* set, under a configuration with every default set and undecodable by
\* viper, has been answered 400.
C8_Witness ==
    /\ pc[1] = "done"
    /\ status[1] = 400
    /\ inbound[1].Body = "json"
    /\ inbound[1].data.Indexer = "btn"
    /\ inbound[1].data.TorrentID # 0
    /\ inbound[1].data.Uploaders # <<>>
    /\ inbound[1].data.MinRatio # 0
    /\ config = ConfigDefaults
    /\ ~viperOK

(***************************************************************************)
(* The uploader rule, checked under SpecUploader.                          *)
(***************************************************************************)
C10_Blank(s, from, to) == \A k \in from..to : s[k] \in {" ", "\t"}

\* Whether the name u is an entry of the comma-separated list s: some
\* stretch of s between two commas (or an end of s) is u with blanks
\* around it, u itself having no blank at either end; the comparison is
\* character by character, so case matters.
C10_Listed(s, u) ==
    \E i \in 1..(Len(s) + 1), j \in 0..Len(s) :
        /\ i <= j + 1
        /\ i = 1 \/ s[i - 1] = ","
        /\ j = Len(s) \/ s[j + 1] = ","
        /\ \A k \in i..j : s[k] # ","
        /\ \E a \in i..(j + 1), b \in (i - 1)..j :
            /\ a <= b + 1
            /\ SubSeq(s, a, b) = u
            /\ C10_Blank(s, i, a - 1)
            /\ C10_Blank(s, b + 1, j)
            /\ u = <<>> \/ (~C10_Blank(u, 1, 1) /\ ~C10_Blank(u, Len(u), Len(u)))

\* C10: once the uploader rule has run on a fetched torrent, in mode
\* "blacklist" the evaluation has been rejected with 227 exactly when the
\* uploader's name is an entry of the requested list (split on commas,
\* entries trimmed, exact case-sensitive match), and in mode "whitelist"
\* exactly when it is not.
C10_UploaderRule ==
    \A p \in Procs :
        (/\ pc[p] \in {"label", "size", "ratio", "done"}
         /\ UploaderActive(requestData[p])
         /\ torrentData[p] # NoData
         /\ torrentData[p].Torrent # NoTorrent)
        => LET listed == C10_Listed(requestData[p].Uploaders,
                                    torrentData[p].Torrent.Username)
           IN  /\ requestData[p].Mode = "blacklist" => (status[p] = 227 <=> listed)
               /\ requestData[p].Mode = "whitelist" => (status[p] = 227 <=> ~listed)

\* C10 witness: the list "a, b" in mode "blacklist" has rejected the
\* uploader "b", whose entry had to be trimmed to match.
C10_Witness ==
    /\ pc[1] = "done"
    /\ status[1] = 227
    /\ requestData[1].Mode = "blacklist"
    /\ requestData[1].Uploaders = sAB
    /\ torrentData[1] # NoData
    /\ torrentData[1].Torrent.Username = sB

(***************************************************************************)
(* Claims about evaluations running at the same time, checked under        *)
(* SpecConc.                                                               *)
(***************************************************************************)
\* Worker p's next step needs a record it does not hold yet.
C6_WantsFetch(p) ==
    LET rd == requestData[p]
    IN  \/ /\ torrentData[p] = NoData
           /\ \/ pc[p] = "uploader" /\ UploaderActive(rd)
              \/ pc[p] = "label" /\ RecordLabelActive(rd)
              \/ pc[p] = "size" /\ SizeActive(rd)
        \/ /\ userData[p] = NoData
           /\ pc[p] = "ratio" /\ RatioActive(rd) /\ UserIDOf(rd) # 0

\* C6: every GET goes to the tracker of the request's indexer and is sent
\* in a step in which that indexer's limiter held a token and gave it; a
\* step that needs a fetch while the limiter holds no token sends nothing,
\* leaves the limiters alone and ends the evaluation at once with 500.
C6_FetchGatedByAllow ==
    [][\A p \in Procs :
        LET rd == requestData[p]
            n == Len(calls'[p])
        IN  /\ n > Len(calls[p]) =>
                /\ rd.Indexer \in Indexers
                /\ calls'[p][n].limiter = rd.Indexer
                /\ calls'[p][n].base =
                     (IF rd.Indexer = "redacted" THEN "https://redacted.ch/ajax.php"
                      ELSE "https://orpheus.network/ajax.php")
                /\ tokens[rd.Indexer] >= Window
                /\ tokens'[rd.Indexer] = tokens[rd.Indexer] - Window
            /\ (errKind'[p] = "ratelimited" /\ errKind[p] # "ratelimited") =>
                /\ tokens[rd.Indexer] < Window
                /\ calls' = calls
                /\ tokens' = tokens
                /\ pc'[p] = "done"
                /\ status'[p] = 500
            /\ (C6_WantsFetch(p) /\ tokens[rd.Indexer] < Window /\ pc'[p] # pc[p]) =>
                errKind'[p] = "ratelimited"
      ]_vars

\* C6 witness: an evaluation on ops that had sent its GET for the torrent
\* was denied the one for the user and has ended with 500, the limiter
\* having given out its whole burst.
C6_Witness ==
    \E p \in Procs :
        /\ pc[p] = "done"
        /\ errKind[p] = "ratelimited"
        /\ status[p] = 500
        /\ requestData[p].Indexer = "ops"
        /\ Len(calls[p]) = 1
        /\ sent["ops"] = BurstOrpheus

\* C7: whatever the interleaving, no bucket goes below zero, and the GETs
\* sent to a tracker since the last refill, by all evaluations together,
\* never exceed what the bucket has given out, at most its burst (10 for
\* redacted, 5 for ops).
C7_AtomicLimiter ==
    \A i \in Indexers :
        /\ tokens[i] >= 0
        /\ sent[i] * Window + tokens[i] <= Full(i)
        /\ sent[i] <= (IF i = "redacted" THEN 10 ELSE 5)

\* C7 witness: two workers are both in the middle of an evaluation on ops
\* while the ops limiter has given out its whole burst and denied a call.
C7_Witness ==
    \E p, q \in Procs :
        /\ p # q
        /\ requestData[p].Indexer = "ops"
        /\ requestData[q].Indexer = "ops"
        /\ pc[p] = "ratio"
        /\ Len(calls[p]) = 1
        /\ errKind[q] = "ratelimited"
        /\ sent["ops"] = BurstOrpheus
        /\ tokens["ops"] < Window

(***************************************************************************)
(* Running one request again and again, checked under SpecRerun.           *)
(***************************************************************************)
\* C9 as claimed: every later run of the same request, with the same
\* configuration and the trackers answering the same, ends as the first
\* run ended.
C9_SameOutcomeAlways ==
    (first # NoOutcome /\ pc[1] \in {"done", "panicked"}) => Outcome(1) = first

\* C9: every later run of the same request, with the same configuration
\* and the trackers answering the same, ends as the first run ended,
\* unless the rate limiter denies one of its fetches.
C9_SameOutcomeUnlessRateLimited ==
    (/\ first # NoOutcome
     /\ pc[1] \in {"done", "panicked"}
     /\ errKind[1] # "ratelimited"
     /\ first.err # "ratelimited")
    => Outcome(1) = first

\* C9 witness: a request whose runs each send two GETs has ended its third
\* run or a later one as it ended its first, with 200.
C9_Witness ==
    /\ first # NoOutcome
    /\ served >= 3
    /\ pc[1] = "done"
    /\ Len(calls[1]) = 2
    /\ Outcome(1) = first
    /\ status[1] = 200

(***************************************************************************)
(* The record-label rule, checked under SpecLabel.                         *)
(***************************************************************************)
\* A label as the rule is to compare it: HTML entities unescaped, blanks
\* at both ends removed, lowercased.
C11_Normal(label) == ToLower(TrimSpace(UnescapeString(label)))

\* The requested labels, each normalized.
C11_Requested(rd) ==
    {C11_Normal(Split(rd.RecordLabel)[k]) : k \in 1..Len(Split(rd.RecordLabel))}

\* Worker p's record-label rule has run on a fetched torrent.
C11_LabelRuleRan(p) ==
    /\ pc[p] \in {"size", "ratio", "done"}
    /\ RecordLabelActive(requestData[p])
    /\ torrentData[p] # NoData
    /\ torrentData[p].Torrent # NoTorrent

\* C11 as claimed: once the record-label rule has run on a fetched torrent
\* whose label is not empty after normalization, the evaluation has been
\* rejected with 228 exactly when the normalized label equals none of the
\* normalized requested labels; " W R " against "w r" passes.
C11_NormalizedLabelMatch ==
    \A p \in Procs :
        (C11_LabelRuleRan(p)
         /\ C11_Normal(torrentData[p].Torrent.RecordLabel) # <<>>)
        => (status[p] = 228 <=>
              C11_Normal(torrentData[p].Torrent.RecordLabel)
                  \notin C11_Requested(requestData[p]))

\* C12 as claimed: once the record-label rule has run on a fetched torrent
\* whose label is empty after normalization (blanks only included), the
\* evaluation has been rejected with 228, whatever was requested.
C12_EmptyLabelRejected ==
    \A p \in Procs :
        (C11_LabelRuleRan(p)
         /\ C11_Normal(torrentData[p].Torrent.RecordLabel) = <<>>)
        => status[p] = 228

(***************************************************************************)
(* The size rule, the inactive rules and the ratio rule, checked under     *)
(* Spec.                                                                   *)
(***************************************************************************)
\* C13: once the size rule has run on a fetched torrent (no earlier rule
\* having rejected), the evaluation has been rejected with 229 exactly when
\* the minimum is set and the size is below it or the maximum is set and
\* the size is above it; a bound of 0 does not bound, and a size equal to a
\* bound passes.
C13_SizeRule ==
    \A p \in Procs :
        (/\ pc[p] \in {"ratio", "done"}
         /\ requestData[p].TorrentID # 0
         /\ requestData[p].MinSize # 0 \/ requestData[p].MaxSize # 0
         /\ torrentData[p] # NoData
         /\ torrentData[p].Torrent # NoTorrent
         /\ status[p] \notin {227, 228})
        => LET size == torrentData[p].Torrent.Size
               min == requestData[p].MinSize
               max == requestData[p].MaxSize
           IN  /\ status[p] = 229 <=> ((min # 0 /\ size < min) \/ (max # 0 /\ size > max))
               /\ (size = min \/ size = max) /\ (min = 0 \/ size >= min)
                    /\ (max = 0 \/ size <= max) => status[p] # 229

\* C13 witness: a torrent whose size equals the maximum has passed the
\* size rule, and the minimum was set too.
C13_Witness ==
    /\ pc[1] = "ratio"
    /\ requestData[1].TorrentID # 0
    /\ requestData[1].MinSize # 0
    /\ requestData[1].MaxSize # 0
    /\ torrentData[1] # NoData
    /\ torrentData[1].Torrent # NoTorrent
    /\ torrentData[1].Torrent.Size = requestData[1].MaxSize

\* The effective request rd asks for a rule that reads the torrent / for
\* no rule at all.
C14_WantsTorrent(rd) ==
    /\ rd.TorrentID # 0
    /\ \/ rd.Uploaders # <<>>
       \/ rd.RecordLabel # <<>>
       \/ rd.MinSize # 0
       \/ rd.MaxSize # 0
C14_NoRule(rd) == ~C14_WantsTorrent(rd) /\ rd.MinRatio = 0

\* C14: a GET for the torrent is only ever sent by an evaluation whose
\* torrent id is set together with an uploader list, a label list or a
\* size bound, and a GET for the user only by one whose minimum ratio is
\* set; every step of an evaluation with no active rule leaves the limiters
\* and its (empty) list of GETs alone, and such an evaluation ends with 200.
C14_InactiveRulesFetchNothing ==
    [][\A p \in Procs :
        /\ \A k \in DOMAIN calls'[p] :
            /\ calls'[p][k].action = "torrent" => C14_WantsTorrent(requestData'[p])
            /\ calls'[p][k].action = "user" => requestData'[p].MinRatio # 0
        /\ (/\ pc[p] \in {"uploader", "label", "size", "ratio"}
            /\ C14_NoRule(requestData[p])
            /\ pc'[p] # pc[p])
           => /\ tokens' = tokens
              /\ calls[p] = <<>> /\ calls'[p] = <<>>
              /\ pc'[p] \in {"label", "size", "ratio", "done"}
              /\ pc'[p] = "done" => status'[p] = 200
      ]_vars

\* C14 witness: a request with an uploader list and size bounds but no
\* torrent id and no minimum ratio has ended with 200 without a GET.
C14_Witness ==
    /\ pc[1] = "done"
    /\ status[1] = 200
    /\ calls[1] = <<>>
    /\ C14_NoRule(requestData[1])
    /\ requestData[1].Uploaders # <<>>
    /\ requestData[1].MinSize # 0
    /\ \A i \in Indexers : tokens[i] = Full(i)

\* C15: once the ratio rule has run on a fetched user, the evaluation has
\* been rejected with 226 exactly when the reported ratio is below the
\* effective minimum; a ratio equal to the minimum passes with 200 and one
\* unit below it is rejected.  (Ratios are counted in the smallest unit the
\* inputs differ by.)
C15_RatioRule ==
    \A p \in Procs :
        (/\ pc[p] = "done"
         /\ requestData[p].MinRatio # 0
         /\ userData[p] # NoData)
        => /\ status[p] = 226 <=> userData[p].Ratio < requestData[p].MinRatio
           /\ userData[p].Ratio = requestData[p].MinRatio => status[p] = 200
           /\ userData[p].Ratio = requestData[p].MinRatio - 1 => status[p] = 226

\* C15 witness: a user whose ratio equals the minimum has passed.
C15_Witness ==
    /\ pc[1] = "done"
    /\ requestData[1].MinRatio # 0
    /\ userData[1] # NoData
    /\ userData[1].Ratio = requestData[1].MinRatio
    /\ status[1] = 200

\* The ratio rule of the effective request rd is active and the user id of
\* its indexer is 0.
C16_NoUserID(rd) ==
    /\ rd.MinRatio # 0
    /\ rd.Indexer \in {"redacted", "ops"}
    /\ (IF rd.Indexer = "ops" THEN rd.OPSUserID ELSE rd.REDUserID) = 0

C18_NonSuccess(reply) == reply.net = "ok" /\ reply.Status # "success"

C18_Held(p, call) == IF call.action = "torrent" THEN torrentData[p] ELSE userData[p]

C18_NonSuccessIsUpstreamFailure ==
    \A p \in Procs : \A k \in 1..Len(calls[p]) :
        C18_NonSuccess(calls[p][k].reply) =>
            /\ k = Len(calls[p])
            /\ pc[p] = "done"
            /\ status[p] = StatusInternalServerError
            /\ status[p] \notin {StatusRatioNotAllowed, StatusUploaderNotAllowed,
                                StatusLabelNotAllowed, StatusSizeNotAllowed}
            /\ errKind[p] = "upstream"
            /\ errText[p] = calls[p][k].reply.Error
            /\ C18_Held(p, calls[p][k]) = NoData

C18_Witness ==
    /\ Len(calls[1]) = 2
    /\ calls[1][2].action = "user"
    /\ C18_NonSuccess(calls[1][2].reply)
    /\ calls[1][2].reply.Error # ""
    /\ errText[1] = calls[1][2].reply.Error
    /\ status[1] = StatusInternalServerError


(***************************************************************************)
(* C19: whenever a call that the limiter permitted fails in transport,     *)
(* times out or brings a body that cannot be decoded, the evaluation ends  *)
(* there with status 500 and an error that is not the upstream error of a  *)
(* non-success envelope, and the missing response is not used.             *)
(***************************************************************************)
C19_NoResponse(reply) == reply.net \in {"down", "garbled"}

C19_TransportErrorIsDistinct ==
    \A p \in Procs : \A k \in 1..Len(calls[p]) :
        C19_NoResponse(calls[p][k].reply) =>
            /\ k = Len(calls[p])
            /\ pc[p] = "done"
            /\ status[p] = StatusInternalServerError
            /\ errKind[p] \notin {"none", "upstream"}


(***************************************************************************)
(* C20: every evaluation ends in exactly one of Pass (200), Fail(rule)     *)
(* (226..229), InputError (400) or UpstreamFailure (500) whatever envelope *)
(* the tracker answers with, a "success" envelope without a torrent object *)
(* included: no evaluation whose calls were all answered by a decoded      *)
(* envelope ends without a status.                                         *)
(***************************************************************************)
C20_Outcomes ==
    {StatusOK, StatusRatioNotAllowed, StatusUploaderNotAllowed, StatusLabelNotAllowed,
     StatusSizeNotAllowed, StatusBadRequest, StatusInternalServerError}

C20_Answered(p) == \A k \in 1..Len(calls[p]) : calls[p][k].reply.net = "ok"

C20_OneOutcomeForEveryReply ==
    \A p \in Procs :
        C20_Answered(p) =>
            /\ pc[p] # "panicked"
            /\ pc[p] = "done" => status[p] \in C20_Outcomes


(***************************************************************************)
(* C17: outcomes and status codes correspond one to one: 200 for a pass,   *)
(* 226 for a ratio violation, 227 uploader, 228 record label, 229 size,    *)
(* and 500 for every upstream, transport, rate-limit or configuration      *)
(* failure; the four violation codes differ from each other and from 200,  *)
(* 400 and 500; and 200 is answered only when every active rule is         *)
(* satisfied.                                                              *)
(***************************************************************************)
C17_TorrentRules == {"uploader", "label", "size"}

\* The rule is active and the data held for it violates it.
C17_Broken(p, rule) ==
    IF rule = "ratio"
      THEN RatioActive(requestData[p]) /\ userData[p] # NoData
           /\ RatioViolates(requestData[p], userData[p])
      ELSE RuleActive(rule, requestData[p]) /\ torrentData[p] # NoData
           /\ RuleViolates(rule, requestData[p], torrentData[p].Torrent)

\* The rule is inactive, or the data held for it satisfies it.
C17_Satisfied(p, rule) ==
    IF rule = "ratio"
      THEN RatioActive(requestData[p]) =>
              userData[p] # NoData /\ ~RatioViolates(requestData[p], userData[p])
      ELSE RuleActive(rule, requestData[p]) =>
              /\ torrentData[p] # NoData
              /\ ~RuleViolates(rule, requestData[p], torrentData[p].Torrent)

\* A call of the evaluation was not answered by a success envelope, or a
\* fetch returned an error before any call.
C17_FetchFailed(p) ==
    \/ \E k \in 1..Len(calls[p]) :
          \/ calls[p][k].reply.net # "ok"
          \/ calls[p][k].reply.Status # "success"
    \/ errKind[p] \in {"upstream", "ratelimited", "config"}

C17_OutcomeToStatus ==
    /\ Cardinality({StatusRatioNotAllowed, StatusUploaderNotAllowed, StatusLabelNotAllowed,
                    StatusSizeNotAllowed, StatusOK, StatusBadRequest,
                    StatusInternalServerError}) = 7
    /\ StatusRatioNotAllowed = 226 /\ StatusUploaderNotAllowed = 227
    /\ StatusLabelNotAllowed = 228 /\ StatusSizeNotAllowed = 229
    /\ \A p \in Procs :
        /\ C17_FetchFailed(p) =>
              pc[p] = "done" /\ status[p] = StatusInternalServerError
        /\ pc[p] = "done" =>
              /\ status[p] = StatusOK =>
                    \A rule \in C17_TorrentRules \cup {"ratio"} : C17_Satisfied(p, rule)
              /\ status[p] = StatusRatioNotAllowed => C17_Broken(p, "ratio")
              /\ \A rule \in C17_TorrentRules :
                    status[p] = RuleStatus(rule) => C17_Broken(p, rule)
              /\ (\E rule \in C17_TorrentRules : C17_Broken(p, rule)) =>
                    status[p] \in {RuleStatus(rule) : rule \in C17_TorrentRules}


(***************************************************************************)
(* Claims about the merge with the configuration, checked under SpecMerge. *)
(***************************************************************************)
\* The parameters that HookData merges, and the value that counts as unset.
C21_Merged ==
    {"REDUserID", "OPSUserID", "REDKey", "OPSKey", "MinRatio", "MinSize", "MaxSize",
     "Uploaders", "Mode"}
C21_Unset(rd, field) ==
    IF field \in {"REDUserID", "OPSUserID", "MinRatio", "MinSize", "MaxSize"}
      THEN rd[field] = 0
      ELSE IF field = "Uploaders" THEN rd[field] = <<>> ELSE rd[field] = ""

\* Worker p holds a request that has passed the merge.
C21_PastMerge(p) ==
    /\ pc[p] # "idle"
    /\ inbound[p].Method = "POST"
    /\ inbound[p].Body = "json"
    /\ ValidIndexer(inbound[p].data.Indexer)

\* C21: after the merge each effective parameter (the two user ids, the two
\* API keys, min ratio, min size, max size, uploader list, mode) is the
\* request's value when that is non-zero / non-empty and the configuration
\* default otherwise, whatever the other parameters are.
C21_EachFieldMergedAlone ==
    \A p \in Procs : C21_PastMerge(p) =>
        \A field \in C21_Merged :
            requestData[p][field] =
                IF C21_Unset(inbound[p].data, field)
                  THEN config[field] ELSE inbound[p].data[field]

\* C21 witness: one evaluation whose min ratio and key are the request's
\* and whose max size and user id are the configuration's.
C21_Witness ==
    /\ C21_PastMerge(1)
    /\ pc[1] = "size"
    /\ inbound[1].data.MinRatio = 2 /\ requestData[1].MinRatio = 2
    /\ inbound[1].data.REDKey = "reqkey" /\ requestData[1].REDKey = "reqkey"
    /\ inbound[1].data.MaxSize = 0 /\ requestData[1].MaxSize = 5
    /\ inbound[1].data.REDUserID = 0 /\ requestData[1].REDUserID = 8


\* C22: the effective record-label list is the request's list when that is
\* non-empty and the configured default list otherwise, so that a default
\* list alone makes the record-label rule active for a request with a
\* torrent id and no list of its own.
C22_LabelDefaultApplies ==
    \A p \in Procs : C21_PastMerge(p) =>
        /\ requestData[p].RecordLabel =
              IF inbound[p].data.RecordLabel = <<>>
                THEN config.RecordLabel ELSE inbound[p].data.RecordLabel
        /\ (inbound[p].data.TorrentID # 0 /\ config.RecordLabel # <<>>) =>
              RecordLabelActive(requestData[p])


(***************************************************************************)
(* Claims about reloads of the configuration, checked under SpecReload.    *)
(***************************************************************************)
\* C23: the configuration is replaced atomically on a reload: however a
\* reload interleaves with an evaluation's merge, the defaults that the
\* evaluation reads all come from one version of the configuration, never
\* new uploader or ratio defaults together with old parsed size bounds, nor
\* a new min size together with an old max size.
C23_DefaultsOfOneVersion ==
    \A p \in Procs : C21_PastMerge(p) =>
        \E c \in ReloadVersions : \A field \in C21_Merged :
            requestData[p][field] =
                IF C21_Unset(inbound[p].data, field)
                  THEN c[field] ELSE inbound[p].data[field]


(***************************************************************************)
(* C24: no failure met while a request is handled ends the process: after  *)
(* an input, configuration-decode, rate-limit, upstream or transport       *)
(* failure the service can still take the next request.                    *)
(***************************************************************************)
C24_ProcessSurvives ==
    /\ alive
    /\ \A p \in Procs : pc[p] # "fatal"


(***************************************************************************)
(* C25: once the uploader, record-label or size rule has rejected, the     *)
(* evaluation has stopped: no user fetch is issued and no token is taken   *)
(* for the user resource, even when the ratio rule is active.              *)
(***************************************************************************)
C25_Rejected(p) ==
    status[p] \in {StatusUploaderNotAllowed, StatusLabelNotAllowed, StatusSizeNotAllowed}

C25_NothingAfterViolation ==
    [][\A p \in Procs :
        /\ C25_Rejected(p)' =>
              /\ pc'[p] = "done"
              /\ userData'[p] = NoData
              /\ \A k \in 1..Len(calls'[p]) : calls'[p][k].action # "user"
        /\ C25_Rejected(p) =>
              /\ calls'[p] = calls[p] \/ calls'[p] = <<>>
              /\ \A i \in Indexers : tokens'[i] >= tokens[i] /\ sent'[i] <= sent[i]]_vars

\* C25 witness: the size rule has rejected an evaluation whose ratio rule
\* is active, after one call.
C25_Witness ==
    /\ status[1] = StatusSizeNotAllowed
    /\ pc[1] = "done"
    /\ RatioActive(requestData[1])
    /\ Len(calls[1]) = 1
    /\ tokens[requestData[1].Indexer] = Full(requestData[1].Indexer) - Window


(***************************************************************************)
(* C26: there are no retries.  Within one evaluation a fetch that failed   *)
(* (denied by the limiter, upstream error, transport failure) is never     *)
(* followed by another outbound call, so an evaluation sends at most one   *)
(* call for the torrent and one for the user, two calls and two tokens in  *)
(* all.                                                                    *)
(***************************************************************************)
C26_CallsFor(p, action) == {k \in DOMAIN calls[p] : calls[p][k].action = action}

C26_FailedCall(call) == call.reply.net # "ok" \/ call.reply.Status # "success"

C26_Failed(p) ==
    \/ errKind[p] \in {"ratelimited", "upstream"}
    \/ \E k \in DOMAIN calls[p] : C26_FailedCall(calls[p][k])

C26_AtMostOnce(p) ==
    /\ Cardinality(C26_CallsFor(p, "torrent")) <= 1
    /\ Cardinality(C26_CallsFor(p, "user")) <= 1
    /\ Len(calls[p]) <= 2
    /\ C2_CostOf(p, DOMAIN calls[p]) <= 2 * Window
    /\ \A k \in DOMAIN calls[p] : C26_FailedCall(calls[p][k]) => k = Len(calls[p])

C26_NoRetries ==
    [][\A p \in Procs :
        /\ C26_AtMostOnce(p)'
        /\ C26_Failed(p) => calls'[p] = calls[p] \/ calls'[p] = <<>>]_vars

\* C26 witness: the torrent call failed upstream while the size rule and
\* the ratio rule were still to run, and it stayed the only call.
C26_Witness ==
    /\ pc[1] = "done"
    /\ errKind[1] = "upstream"
    /\ UploaderActive(requestData[1])
    /\ SizeActive(requestData[1])
    /\ RatioActive(requestData[1])
    /\ Len(calls[1]) = 1
    /\ calls[1][1].reply.net = "garbled"


(***************************************************************************)
(* C27: when the uploader rule is active and the effective mode is neither *)
(* exactly "blacklist" nor exactly "whitelist" (the empty mode included),  *)
(* the rule never rejects, whether the uploader is listed or not, and the  *)
(* evaluation goes on to the next rule.  Checked under SpecUploader.       *)
(***************************************************************************)
C27_OtherMode(p) ==
    /\ UploaderActive(requestData[p])
    /\ requestData[p].Mode \notin {"blacklist", "whitelist"}

\* The uploader block of worker p has run on a fetched torrent.
C27_RuleRan(p) ==
    /\ torrentData[p] # NoData
    /\ torrentData[p].Torrent # NoTorrent
    /\ Len(calls[p]) = 1

C27_OtherModeNeverViolates ==
    \A p \in Procs : (C27_OtherMode(p) /\ C27_RuleRan(p)) =>
        /\ status[p] # StatusUploaderNotAllowed
        /\ pc[p] \in {"label", "size", "ratio", "done"}
        /\ pc[p] = "done" => status[p] = StatusOK

\* C27 witness: mode "Blacklist" and a listed uploader, answered with 200.
C27_Witness ==
    /\ C27_OtherMode(1)
    /\ C27_RuleRan(1)
    /\ requestData[1].Mode = "Blacklist"
    /\ IsListed(requestData[1], torrentData[1].Torrent)
    /\ pc[1] = "done"
    /\ status[1] = StatusOK


(***************************************************************************)
(* C28: the two limiters are independent.  An outbound call for one        *)
(* indexer takes its token from that indexer's limiter and leaves the      *)
(* other limiter's tokens as they were, so an exhausted ops limiter never  *)
(* makes a redacted evaluation rate limited, nor the reverse.  Checked     *)
(* under SpecConc.                                                         *)
(***************************************************************************)
\* Worker p has just sent a GET, or has just been denied by its limiter.
C28_Called(p) == Len(calls'[p]) = Len(calls[p]) + 1
C28_Denied(p) == errKind'[p] = "ratelimited" /\ errKind[p] # "ratelimited"

C28_IndependentLimiters ==
    [][\A p \in Procs :
        LET own == requestData[p].Indexer
        IN  /\ (C28_Called(p) \/ C28_Denied(p)) =>
                \A i \in Indexers \ {own} : tokens'[i] = tokens[i] /\ sent'[i] = sent[i]
            /\ C28_Called(p) =>
                /\ tokens'[own] = tokens[own] - Window
                /\ calls'[p][Len(calls'[p])].limiter = own
            /\ C28_Denied(p) => tokens[own] < Window]_vars

\* C28 witness: the ops limiter is exhausted and has denied an ops
\* evaluation, while a redacted evaluation has sent both its calls.
C28_Witness ==
    \E p, q \in Procs :
        /\ tokens["ops"] < Window
        /\ requestData[q].Indexer = "ops" /\ errKind[q] = "ratelimited"
        /\ requestData[p].Indexer = "redacted" /\ pc[p] = "done"
        /\ errKind[p] = "none" /\ Len(calls[p]) = 2


(***************************************************************************)
(* C29: the merge happens once per evaluation and the effective parameters *)
(* do not change afterwards: a reload of the configuration between an      *)
(* evaluation's merge and its last rule changes no parameter that its      *)
(* rules use, and its outcome is the one that the defaults it read         *)
(* determine.                                                              *)
(***************************************************************************)
C29_Merges(p) == pc[p] = "idle" /\ pc'[p] \in {"uploader", "label", "size", "ratio"}
C29_InFlight(p) == pc[p] # "idle" /\ pc'[p] # "idle"
C29_Answers(p) == pc[p] # "done" /\ pc'[p] = "done" /\ errKind'[p] = "none"

\* The answer that the parameters rd determine on the data fetched: the
\* code of the first rule, in order, that is active and violated.
C29_Determined(rd, td, ud) ==
    IF UploaderActive(rd) /\ td # NoData /\ UploaderViolates(rd, td.Torrent)
      THEN StatusUploaderNotAllowed
    ELSE IF RecordLabelActive(rd) /\ td # NoData /\ LabelViolates(rd, td.Torrent)
      THEN StatusLabelNotAllowed
    ELSE IF SizeActive(rd) /\ td # NoData /\ SizeViolates(rd, td.Torrent)
      THEN StatusSizeNotAllowed
    ELSE IF RatioActive(rd) /\ ud # NoData /\ RatioViolates(rd, ud)
      THEN StatusRatioNotAllowed
    ELSE StatusOK

C29_MergedOnce ==
    [][\A p \in Procs :
        /\ C29_Merges(p) => requestData'[p] = MergeDefaults(inbound'[p].data, config)
        /\ C29_InFlight(p) => requestData'[p] = requestData[p]
        /\ (C29_InFlight(p) /\ C29_Answers(p)) =>
              status'[p] = C29_Determined(requestData[p], torrentData'[p], userData'[p])]_vars

\* C29 witness: the configuration was reloaded with a ratio floor while an
\* evaluation merged without one was between its rules; it has reached
\* its last rule with the parameters it merged.
C29_Witness ==
    /\ pc[1] = "ratio"
    /\ Len(calls[1]) = 1
    /\ watcher = "idle"
    /\ config = ConfigDefaults
    /\ inbound[1].data.MinRatio = 0
    /\ requestData[1].MinRatio = 0
    /\ requestData[1] # MergeDefaults(inbound[1].data, config)


(***************************************************************************)
(* C30: every outbound call of an evaluation uses the base URL, the        *)
(* limiter, the effective API key and, for a user fetch, the effective     *)
(* user id of the request's own indexer.  An evaluation for "ops" never    *)
(* sends the redacted key or user id, never calls the redacted base URL    *)
(* and never takes a redacted token, and the same with the two indexers    *)
(* exchanged.  Checked under SpecMerge.                                    *)
(***************************************************************************)
\* What belongs to indexer i in the parameters rd.
C30_Of(rd, i) ==
    IF i = "redacted"
      THEN [base |-> APIEndpointBaseRedacted, key |-> rd.REDKey, user |-> rd.REDUserID]
      ELSE [base |-> APIEndpointBaseOrpheus, key |-> rd.OPSKey, user |-> rd.OPSUserID]

C30_CallOfOwnIndexer(rd, call) ==
    LET own == C30_Of(rd, rd.Indexer)
    IN  /\ call.base = own.base
        /\ call.limiter = rd.Indexer
        /\ call.key = own.key
        /\ call.id = IF call.action = "user" THEN own.user ELSE rd.TorrentID
        /\ \A i \in Indexers \ {rd.Indexer} :
            LET foreign == C30_Of(rd, i)
            IN  /\ call.base # foreign.base
                /\ call.limiter # i
                /\ foreign.key # own.key => call.key # foreign.key
                /\ (call.action = "user" /\ foreign.user # own.user) =>
                      call.id # foreign.user

C30_OwnIndexerOnly ==
    [][\A p \in Procs :
        /\ \A k \in DOMAIN calls'[p] : C30_CallOfOwnIndexer(requestData'[p], calls'[p][k])
        /\ Len(calls'[p]) = Len(calls[p]) + 1 =>
              \A i \in Indexers \ {requestData[p].Indexer} :
                  tokens'[i] = tokens[i] /\ sent'[i] = sent[i]]_vars

\* C30 witness: an ops evaluation that also holds a redacted key and a
\* redacted user id has sent its torrent call and its user call.
C30_Witness ==
    /\ requestData[1].Indexer = "ops"
    /\ requestData[1].REDKey = "redkey" /\ requestData[1].REDUserID = 8
    /\ Len(calls[1]) = 2
    /\ calls[1][1].action = "torrent" /\ calls[1][1].key = "reqkey"
    /\ calls[1][2].action = "user" /\ calls[1][2].id = 9
    /\ calls[1][2].base = APIEndpointBaseOrpheus
    /\ tokens["redacted"] = Full("redacted")


(***************************************************************************)
(* C31: a request cannot switch off a rule that the configuration's        *)
(* defaults switch on.  A payload that sends minratio 0, minsize 0,        *)
(* maxsize 0 or an empty uploader list while the default is set is         *)
(* evaluated with that default and with the rule active, exactly as the    *)
(* payload without that member would be.  Checked under SpecZero.          *)
(***************************************************************************)
\* The member was sent with the zero / empty value.
C31_SentZero(member, zero) == member.sent /\ member.value = zero

\* The payload with every member that was sent as zero / empty left out.
C31_LeftOut(payload) ==
    [payload EXCEPT
        !.minratio = IF C31_SentZero(@, 0) THEN Omitted(0) ELSE @,
        !.minsize = IF C31_SentZero(@, 0) THEN Omitted(0) ELSE @,
        !.maxsize = IF C31_SentZero(@, 0) THEN Omitted(0) ELSE @,
        !.uploaders = IF C31_SentZero(@, <<>>) THEN Omitted(<<>>) ELSE @]

\* The parameters of the evaluation of the payload without those members.
C31_AsIfOmitted(p) == MergeDefaults(jsonUnmarshal(C31_LeftOut(inbound[p].payload)), config)

C31_ZeroDoesNotDeactivate ==
    \A p \in Procs : C21_PastMerge(p) =>
        LET sentBy == inbound[p].payload
            rd == requestData[p]
        IN  /\ rd = C31_AsIfOmitted(p)
            /\ (C31_SentZero(sentBy.minratio, 0) /\ config.MinRatio # 0) =>
                  rd.MinRatio = config.MinRatio /\ RatioActive(rd)
            /\ (C31_SentZero(sentBy.minsize, 0) /\ config.MinSize # 0) =>
                  rd.MinSize = config.MinSize /\ SizeActive(rd)
            /\ (C31_SentZero(sentBy.maxsize, 0) /\ config.MaxSize # 0) =>
                  rd.MaxSize = config.MaxSize /\ SizeActive(rd)
            /\ (C31_SentZero(sentBy.uploaders, <<>>) /\ config.Uploaders # <<>>) =>
                  rd.Uploaders = config.Uploaders /\ UploaderActive(rd)
            /\ (pc[p] = "done" /\ errKind[p] = "none") =>
                  status[p] = C29_Determined(C31_AsIfOmitted(p), torrentData[p], userData[p])

\* C31 witness: a payload that sent minratio 0, minsize 0, maxsize 0 and an
\* empty uploader list was rejected by the default ratio floor, after the
\* default uploader and size rules had fetched the torrent.
C31_Witness ==
    /\ C21_PastMerge(1)
    /\ C31_SentZero(inbound[1].payload.minratio, 0)
    /\ C31_SentZero(inbound[1].payload.minsize, 0)
    /\ C31_SentZero(inbound[1].payload.maxsize, 0)
    /\ C31_SentZero(inbound[1].payload.uploaders, <<>>)
    /\ config = ConfigDefaults
    /\ pc[1] = "done"
    /\ status[1] = StatusRatioNotAllowed
    /\ Len(calls[1]) = 2


(***************************************************************************)
(* Claims about what a failed evaluation leaves behind, checked under Spec.*)
(***************************************************************************)
\* The evaluation of worker p has ended in an input error (not a POST,
\* malformed JSON, missing or unknown indexer) or in the error of the
\* missing user id.
C32_EndedEarly(p) == pc[p] = "done" /\ errKind[p] \in {"input", "config"}

\* C32 as claimed: an evaluation that ends in an input error or in the
\* missing-user-id error has left the token counts of both limiters as
\* they were and has issued no call for the user.
C32_NoTokenTaken ==
    \A p \in Procs : C32_EndedEarly(p) =>
        /\ C2_CostOf(p, DOMAIN calls[p]) = 0
        /\ \A k \in DOMAIN calls[p] : calls[p][k].action # "user"

\* C32: an evaluation that ends in an input error has issued no call and
\* taken no token; the step that ends an evaluation in the missing-user-id
\* error issues no call and leaves both limiters as they were, and the
\* only token that evaluation can have taken is the one of its single
\* call for the torrent.
C32_NoTokenForFailedFetch ==
    [][\A p \in Procs :
        (pc[p] # "done" /\ C32_EndedEarly(p)') =>
            /\ tokens' = tokens
            /\ sent' = sent
            /\ calls'[p] = calls[p]
            /\ \A k \in DOMAIN calls'[p] : calls'[p][k].action = "torrent"
            /\ Len(calls'[p]) <= 1
            /\ errKind'[p] = "input" => calls'[p] = <<>>]_vars

\* C32 witness: an evaluation has ended in the missing-user-id error with
\* the redacted limiter one token short, taken by its call for the torrent.
C32_Witness ==
    /\ C32_EndedEarly(1)
    /\ errKind[1] = "config"
    /\ requestData[1].Indexer = "redacted"
    /\ Len(calls[1]) = 1
    /\ calls[1][1].cost = Window
    /\ tokens["redacted"] = Full("redacted") - Window
    /\ tokens["ops"] = Full("ops")

=============================================================================
